---- MODULE Spec2Model ----
(***************************************************************************)
(* Model of the rap-battle agent backend: the HTTP front door              *)
(* (src/app/api_server.py), the transcription gateway (src/app/stt.py),    *)
(* the conversational gateway (src/app/dialogflow_client.py) and the       *)
(* synthesis gateway (src/app/tts.py).                                     *)
(*                                                                         *)
(* One request is handled at a time (requests share no mutable state).     *)
(* A handler is cut into steps at its calls to the remote backends: the    *)
(* answer of a backend is the nondeterministic input of the next step.     *)
(*                                                                         *)
(* Text is a sequence of tokens (a token is an indivisible piece of text): *)
(* concatenation is \o, Python's `x in s` is token containment, and        *)
(* s.startswith(p) is the prefix test.  File names and MIME types are      *)
(* sequences of characters.                                                *)
(***************************************************************************)
EXTENDS Integers, Sequences, FiniteSets, TLC

\* ------------------------------------------------------------------ bounds
\* Longest error message (in tokens) a recognition backend raises on the first call.
MaxMsgLen == 3
\* Longest error message (in tokens) a recognition backend raises on the retry.
MaxRetryMsgLen == 1
\* Most response messages in one intent-detection answer.
MaxDfMessages == 2
\* Most bytes in one synthesized audio answer.
MaxAudioLen == 2

\* ------------------------------------------------------------ Python values
\* None, and a field a JSON body does not carry: neither is a text.
None == <<"<None>">>
Absent == <<"<absent>">>

\* bool(s) of an Optional[str]: None and "" are falsy.
Truthy(s) == s # None /\ s # <<>>

\* All sequences over S of length at most n.
SeqUpTo(S, n) == UNION {[1..k -> S] : k \in 0..n}

\* tok in s
Contains(s, tok) == \E i \in 1..Len(s) : s[i] = tok

\* s.startswith(p)
StartsWith(s, p) == Len(s) >= Len(p) /\ SubSeq(s, 1, Len(p)) = p

\* " ".join(parts)
RECURSIVE JoinSpace(_)
JoinSpace(parts) ==
    IF parts = <<>> THEN <<>>
    ELSE IF Len(parts) = 1 THEN parts[1]
    ELSE parts[1] \o <<" ">> \o JoinSpace(Tail(parts))

\* str(uuid.uuid4()): some non-empty text.
Uuids == {<<"uuid-a">>, <<"uuid-b">>}

\* ---------------------------------------------------- conversational gateway
\* The literals of dialogflow_client.py.
DF_DEFAULT_APOLOGY == <<"Sorry, no suitable response could be generated.">>
DF_ERROR_PREFIX == <<"An error occurred: ">>

\* What the remote intent detection does with one request: it answers with a list
\* of response messages, each a list of text fragments (msg.text.text), or fails.
DfFragments == {<<"yo">>, <<"check it">>}
DfMessages == {<<>>, <<<<"yo">>>>, <<<<"yo">>, <<"check it">>>>}
DfErrors == {<<"503 unavailable">>, <<>>}
DfBackend ==
    {[kind |-> "response", messages |-> m, error |-> <<>>] :
        m \in SeqUpTo(DfMessages, MaxDfMessages)}
    \cup {[kind |-> "error", messages |-> <<>>, error |-> e] : e \in DfErrors}

\* A function's outcome: the value it returns, or the exception it raises.
Return(v) == [raised |-> FALSE, value |-> v, exc |-> <<>>]
Raise(e) == [raised |-> TRUE, value |-> None, exc |-> e]

\* A faulty variant of detect_intent_texts: one that lets the backend's failure escape.
detect_intent_texts_propagating(text, session_id, backend) ==
    IF backend.kind = "error" THEN Raise(backend.error)
    ELSE Return([i \in 1..Len(backend.messages) |-> JoinSpace(backend.messages[i])])

\* A faulty variant of detect_intent_texts: one that forgets the default answer.
detect_intent_texts_no_default(text, session_id, backend) ==
    IF backend.kind = "error" THEN Return(<<DF_ERROR_PREFIX \o backend.error>>)
    ELSE Return([i \in 1..Len(backend.messages) |-> JoinSpace(backend.messages[i])])

\* detect_intent_texts(text, session_id), given what the backend does.
detect_intent_texts(text, session_id, backend) ==
    IF backend.kind = "error"
    THEN Return(<<DF_ERROR_PREFIX \o backend.error>>)
    ELSE LET response_messages ==
                 [i \in 1..Len(backend.messages) |-> JoinSpace(backend.messages[i])]
         IN IF response_messages = <<>>
            THEN Return(<<DF_DEFAULT_APOLOGY>>)
            ELSE Return(response_messages)

\* ------------------------------------------------------ audio format resolver
\* s.lower(), character by character.
LowerChar(c) ==
    CASE c = "A" -> "a" [] c = "B" -> "b" [] c = "C" -> "c" [] c = "E" -> "e"
      [] c = "G" -> "g" [] c = "M" -> "m"
      [] c = "O" -> "o" [] c = "P" -> "p" [] c = "V" -> "v" [] c = "W" -> "w"
      [] c = "Z" -> "z" [] OTHER -> c
Lower(s) == [i \in 1..Len(s) |-> LowerChar(s[i])]

\* sub in s, for character strings.
IsSubstring(sub, s) ==
    \E i \in 0..(Len(s) - Len(sub)) : SubSeq(s, i + 1, i + Len(sub)) = sub

\* The index of the last c in s, 0 when there is none.
LastIndexOf(s, c) ==
    IF \E i \in 1..Len(s) : s[i] = c
    THEN CHOOSE i \in 1..Len(s) : s[i] = c /\ \A j \in (i + 1)..Len(s) : s[j] # c
    ELSE 0

\* os.path.splitext(p): the extension starts at the last dot of the last path
\* component, unless only dots precede it there.
SplitExt(p) ==
    LET sepIndex == LastIndexOf(p, "/")
        dotIndex == LastIndexOf(p, ".")
    IN IF dotIndex > sepIndex /\ \E j \in (sepIndex + 1)..(dotIndex - 1) : p[j] # "."
       THEN <<SubSeq(p, 1, dotIndex - 1), SubSeq(p, dotIndex, Len(p))>>
       ELSE <<p, <<>>>>

\* The extensions mimetypes knows, of those the model's file names carry.
MimeTypesMap(ext) ==
    CASE ext = <<".", "m", "p", "3">> -> <<"a", "u", "d", "i", "o", "/", "m", "p", "e", "g">>
      [] ext = <<".", "m", "p", "2">> -> <<"a", "u", "d", "i", "o", "/", "m", "p", "e", "g">>
      [] ext = <<".", "w", "a", "v">> -> <<"a", "u", "d", "i", "o", "/", "x", "-", "w", "a", "v">>
      [] ext = <<".", "o", "g", "g">> -> <<"a", "u", "d", "i", "o", "/", "o", "g", "g">>
      [] ext = <<".", "t", "x", "t">> -> <<"t", "e", "x", "t", "/", "p", "l", "a", "i", "n">>
      [] ext = <<".", "a", "a", "c">> -> <<"a", "u", "d", "i", "o", "/", "a", "a", "c">>
      [] ext = <<".", "m", "p", "4">> -> <<"v", "i", "d", "e", "o", "/", "m", "p", "4">>
      [] ext = <<".", "w", "e", "b", "m">> -> <<"v", "i", "d", "e", "o", "/", "w", "e", "b", "m">>
      [] OTHER -> None

\* mimetypes.guess_type(filename)[0]: an encoding suffix (.gz) is set aside, then
\* the extension is looked up as written and in lower case.
GuessType(filename) ==
    LET first == SplitExt(filename)
        parts == IF first[2] = <<".", "g", "z">> THEN SplitExt(first[1]) ELSE first
    IN IF MimeTypesMap(parts[2]) # None
       THEN MimeTypesMap(parts[2])
       ELSE MimeTypesMap(Lower(parts[2]))

\* speech.RecognitionConfig(encoding, language_code "ja-JP", sample_rate_hertz,
\* enable_automatic_punctuation True): the two fields that vary.
RecognitionConfig(encoding, sample_rate) ==
    [encoding |-> encoding, sample_rate_hertz |-> sample_rate]
WEBM_OPUS_48000 == RecognitionConfig("WEBM_OPUS", 48000)
MP3_44100 == RecognitionConfig("MP3", 44100)
LINEAR16_16000 == RecognitionConfig("LINEAR16", 16000)
OGG_OPUS_48000 == RecognitionConfig("OGG_OPUS", 48000)

\* audio_content[:n] of content, of which the model keeps the first four bytes.
Prefix(audio_content, n) ==
    SubSeq(audio_content.head, 1, IF n < Len(audio_content.head) THEN n ELSE Len(audio_content.head))

\* A faulty variant of get_audio_config: one that looks at the leading bytes before
\* the file name.
get_audio_config_bytes_first(audio_content, filename) ==
    LET mime_type == IF Truthy(filename) THEN GuessType(filename) ELSE None
        ext == IF Truthy(filename) THEN Lower(SplitExt(filename)[2]) ELSE None
    IN IF audio_content.len >= 4 /\ Prefix(audio_content, 4) = <<26, 69, 223, 163>>
       THEN WEBM_OPUS_48000
       ELSE IF audio_content.len >= 4
               /\ (Prefix(audio_content, 3) = <<73, 68, 51>>
                   \/ Prefix(audio_content, 2) = <<255, 251>>) THEN MP3_44100
       ELSE IF ext = <<".", "m", "p", "3">> THEN MP3_44100
       ELSE IF ext = <<".", "w", "a", "v">> THEN LINEAR16_16000
       ELSE IF ext = <<".", "o", "g", "g">> THEN OGG_OPUS_48000
       ELSE IF ext \in {<<".", "m", "4", "a">>, <<".", "a", "a", "c">>} THEN MP3_44100
       ELSE IF ext = <<".", "w", "e", "b", "m">> THEN WEBM_OPUS_48000
       ELSE IF Truthy(mime_type)
       THEN IF IsSubstring(<<"m", "p", "e", "g">>, mime_type)
               \/ IsSubstring(<<"m", "p", "3">>, mime_type) THEN MP3_44100
            ELSE IF IsSubstring(<<"w", "a", "v">>, mime_type) THEN LINEAR16_16000
            ELSE IF IsSubstring(<<"o", "g", "g">>, mime_type) THEN OGG_OPUS_48000
            ELSE IF IsSubstring(<<"m", "4", "a">>, mime_type)
                    \/ IsSubstring(<<"a", "a", "c">>, mime_type)
                    \/ IsSubstring(<<"m", "p", "4", "a", "-", "l", "a", "t", "m">>, mime_type)
                 THEN MP3_44100
            ELSE WEBM_OPUS_48000
       ELSE WEBM_OPUS_48000

\* A faulty variant of get_audio_config: one that looks at the leading bytes when
\* the MIME type is unknown, and at contents shorter than four bytes.
get_audio_config_bytes_last(audio_content, filename) ==
    LET mime_type == IF Truthy(filename) THEN GuessType(filename) ELSE None
        ext == IF Truthy(filename) THEN Lower(SplitExt(filename)[2]) ELSE None
        known == {<<"m", "p", "e", "g">>, <<"m", "p", "3">>, <<"w", "a", "v">>,
                  <<"o", "g", "g">>, <<"m", "4", "a">>, <<"a", "a", "c">>,
                  <<"m", "p", "4", "a", "-", "l", "a", "t", "m">>, <<"w", "e", "b", "m">>}
    IN IF ext = <<".", "m", "p", "3">> THEN MP3_44100
       ELSE IF ext = <<".", "w", "a", "v">> THEN LINEAR16_16000
       ELSE IF ext = <<".", "o", "g", "g">> THEN OGG_OPUS_48000
       ELSE IF ext \in {<<".", "m", "4", "a">>, <<".", "a", "a", "c">>} THEN MP3_44100
       ELSE IF ext = <<".", "w", "e", "b", "m">> THEN WEBM_OPUS_48000
       ELSE IF Truthy(mime_type) /\ \E k \in known : IsSubstring(k, mime_type)
       THEN IF IsSubstring(<<"m", "p", "e", "g">>, mime_type)
               \/ IsSubstring(<<"m", "p", "3">>, mime_type) THEN MP3_44100
            ELSE IF IsSubstring(<<"w", "a", "v">>, mime_type) THEN LINEAR16_16000
            ELSE IF IsSubstring(<<"o", "g", "g">>, mime_type) THEN OGG_OPUS_48000
            ELSE IF IsSubstring(<<"w", "e", "b", "m">>, mime_type) THEN WEBM_OPUS_48000
            ELSE MP3_44100
       ELSE IF Prefix(audio_content, 4) = <<26, 69, 223, 163>> THEN WEBM_OPUS_48000
       ELSE IF Prefix(audio_content, 3) = <<73, 68, 51>>
               \/ Prefix(audio_content, 2) = <<255, 251>> THEN MP3_44100
       ELSE WEBM_OPUS_48000

\* get_audio_config(audio_content, filename).
get_audio_config(audio_content, filename) ==
    LET mime_type == IF Truthy(filename) THEN GuessType(filename) ELSE None
        ext == IF Truthy(filename) THEN Lower(SplitExt(filename)[2]) ELSE None
    IN IF ext = <<".", "m", "p", "3">> THEN MP3_44100
       ELSE IF ext = <<".", "w", "a", "v">> THEN LINEAR16_16000
       ELSE IF ext = <<".", "o", "g", "g">> THEN OGG_OPUS_48000
       ELSE IF ext \in {<<".", "m", "4", "a">>, <<".", "a", "a", "c">>} THEN MP3_44100
       ELSE IF ext = <<".", "w", "e", "b", "m">> THEN WEBM_OPUS_48000
       ELSE IF Truthy(mime_type)
       THEN IF IsSubstring(<<"m", "p", "e", "g">>, mime_type)
               \/ IsSubstring(<<"m", "p", "3">>, mime_type) THEN MP3_44100
            ELSE IF IsSubstring(<<"w", "a", "v">>, mime_type) THEN LINEAR16_16000
            ELSE IF IsSubstring(<<"o", "g", "g">>, mime_type) THEN OGG_OPUS_48000
            ELSE IF IsSubstring(<<"m", "4", "a">>, mime_type)
                    \/ IsSubstring(<<"a", "a", "c">>, mime_type)
                    \/ IsSubstring(<<"m", "p", "4", "a", "-", "l", "a", "t", "m">>, mime_type)
                 THEN MP3_44100
            ELSE IF IsSubstring(<<"w", "e", "b", "m">>, mime_type) THEN WEBM_OPUS_48000
            ELSE WEBM_OPUS_48000
       ELSE IF audio_content.len >= 4
       THEN IF Prefix(audio_content, 4) = <<26, 69, 223, 163>> THEN WEBM_OPUS_48000
            ELSE IF Prefix(audio_content, 3) = <<73, 68, 51>>
                    \/ Prefix(audio_content, 2) = <<255, 251>> THEN MP3_44100
            ELSE WEBM_OPUS_48000
       ELSE WEBM_OPUS_48000

\* ------------------------------------------------------ transcription gateway
\* The literals of stt.py.
STT_TOO_SMALL == <<"The audio file is too small. Please speak a little longer.">>
STT_NOT_RECOGNIZED == <<"Could not recognize the audio. Please speak more clearly.">>
STT_LOW_CONFIDENCE == <<"Recognition confidence is low. Please speak clearly again. Result: ">>
STT_BAD_FORMAT == <<"The audio file format is not correct.">>
STT_TOO_LARGE == <<"The audio file is too large.">>
STT_TIMED_OUT == <<"Speech recognition timed out. Please try again.">>
STT_ERROR == <<"An error occurred during speech recognition">>

\* len(audio_content) < MinAudioBytes is too small; above LongAudioBytes the
\* long-running recognition is used, awaited LongRunningTimeout seconds; a
\* confidence below MinConfidencePercent / 100 is low.
MinAudioBytes == 1000
LongAudioBytes == 500 * 1024
LongRunningTimeout == 300
MinConfidencePercent == 30

\* The pieces of text a recognition error's message is made of.
ErrTokens == {"MP3 encoding", "webm", "WebM", "400", "413", "Timeout"}
ErrMessages(n) == SeqUpTo(ErrTokens, n)
\* The pieces of text the message of an error of the retry is made of.
RetryErrTokens == {"400", "413", "Timeout"}

\* str(e).lower(), token by token.
LowerToken(t) ==
    CASE t = "MP3 encoding" -> "mp3 encoding" [] t = "WebM" -> "webm"
      [] t = "Timeout" -> "timeout" [] OTHER -> t
LowerText(s) == [i \in 1..Len(s) |-> LowerToken(s[i])]

\* What the remote recognition does with one call: results whose first result has
\* a first alternative (transcript, confidence), no results, a first result without
\* alternatives, or an error.
Transcripts == {<<>>, <<"yo">>}
Confidences == {29, 30}
NoRecognition == [kind |-> "none", transcript |-> <<>>, confidence |-> 0, error |-> <<>>]
SttResults ==
    {[NoRecognition EXCEPT !.kind = "results", !.transcript = t, !.confidence = c] :
        t \in Transcripts, c \in Confidences}
    \cup {[NoRecognition EXCEPT !.kind = "empty"],
          [NoRecognition EXCEPT !.kind = "no alternatives"]}
SttError(m) == [NoRecognition EXCEPT !.kind = "error", !.error = m]
SttBackend == SttResults \cup {SttError(m) : m \in ErrMessages(MaxMsgLen)}
SttRetryBackend == SttResults \cup {SttError(m) : m \in SeqUpTo(RetryErrTokens, MaxRetryMsgLen)}

\* response.results[0].alternatives[0] of a first result without alternatives.
INDEX_ERROR == <<"list index out of range">>

\* A faulty variant of TooSmall: one that also rejects a payload of exactly MinAudioBytes.
TooSmallInclusive(audio_content) == audio_content.len <= MinAudioBytes

\* len(audio_content) < 1000
TooSmall(audio_content) == audio_content.len < MinAudioBytes

\* A faulty variant of UseLongRunning: one that sends a payload of exactly LongAudioBytes
\* to the long-running recognition.
UseLongRunningInclusive(audio_content) == audio_content.len >= LongAudioBytes

\* len(audio_content) > 500 * 1024
UseLongRunning(audio_content) == audio_content.len > LongAudioBytes

\* A call of the recognition backend.
RecognizeCall(config) == [method |-> "recognize", timeout |-> <<>>, config |-> config]
LongRunningCall(config) ==
    [method |-> "long_running_recognize", timeout |-> <<LongRunningTimeout>>,
     config |-> config]

\* The first recognition call of transcribe_audio.
FirstCall(audio_content, filename) ==
    IF UseLongRunning(audio_content)
    THEN LongRunningCall(get_audio_config(audio_content, filename))
    ELSE RecognizeCall(get_audio_config(audio_content, filename))

\* A faulty variant of IsEncodingMismatch: one that retries after every error.
IsEncodingMismatchAlways(e) == TRUE

\* "MP3 encoding" in str(e) and "webm" in str(e).lower()
IsEncodingMismatch(e) == Contains(e, "MP3 encoding") /\ Contains(LowerText(e), "webm")

\* A faulty variant of ErrorStatus: one that looks for "413" before "400".
ErrorStatusTooLargeFirst(e) ==
    IF Contains(e, "413") THEN STT_TOO_LARGE
    ELSE IF Contains(e, "400") THEN STT_BAD_FORMAT
    ELSE IF Contains(LowerText(e), "timeout") THEN STT_TIMED_OUT
    ELSE STT_ERROR \o <<": ">> \o e

\* The status string of an error e.
ErrorStatus(e) ==
    IF Contains(e, "400") THEN STT_BAD_FORMAT
    ELSE IF Contains(e, "413") THEN STT_TOO_LARGE
    ELSE IF Contains(LowerText(e), "timeout") THEN STT_TIMED_OUT
    ELSE STT_ERROR \o <<": ">> \o e

\* The try block of transcribe_audio from the backend's answer on: the string it
\* returns, or the exception the except block then handles.
AfterRecognize(backend) ==
    CASE backend.kind = "error" -> Raise(backend.error)
      [] backend.kind = "empty" -> Return(STT_NOT_RECOGNIZED)
      [] backend.kind = "no alternatives" -> Raise(INDEX_ERROR)
      [] OTHER ->
           IF backend.confidence < MinConfidencePercent
           THEN Return(STT_LOW_CONFIDENCE \o backend.transcript)
           ELSE Return(backend.transcript)

\* A faulty variant of AfterRetry: one whose retry is not guarded by a try block.
AfterRetryUnguarded(e, backend) ==
    CASE backend.kind = "results" -> Return(backend.transcript)
      [] backend.kind = "empty" -> Return(ErrorStatus(e))
      [] backend.kind = "no alternatives" -> Raise(INDEX_ERROR)
      [] OTHER -> Raise(backend.error)

\* The except block of transcribe_audio from the retry's answer on: the retry's
\* transcript, or the status of the first error e (an error of the retry is logged).
AfterRetry(e, backend) ==
    CASE backend.kind = "results" -> Return(backend.transcript)
      [] OTHER -> Return(ErrorStatus(e))

\* retry_error: what the retry raised, None when it raised nothing.
RetryError(backend) ==
    CASE backend.kind = "error" -> backend.error
      [] backend.kind = "no alternatives" -> INDEX_ERROR
      [] OTHER -> None

\* -------------------------------------------------------- synthesis gateway
\* What the remote synthesis does with one call: audio bytes, or an error.
AudioBytes == {77, 255}
TtsErrors == {<<"503 unavailable">>}
NoSynthesis == [kind |-> "none", audio_content |-> <<>>, error |-> <<>>]
TtsBackend ==
    {[NoSynthesis EXCEPT !.kind = "audio", !.audio_content = a] :
        a \in SeqUpTo(AudioBytes, MaxAudioLen)}
    \cup {[NoSynthesis EXCEPT !.kind = "error", !.error = m] : m \in TtsErrors}

\* synthesize_speech(text), given what the backend does: a failure propagates.
synthesize_speech(text, backend) ==
    IF backend.kind = "error" THEN Raise(backend.error) ELSE Return(backend.audio_content)

\* base64.b64encode(b).decode("utf-8")
B64Alphabet ==
    <<"A", "B", "C", "D", "E", "F", "G", "H", "I", "J", "K", "L", "M", "N", "O", "P",
      "Q", "R", "S", "T", "U", "V", "W", "X", "Y", "Z", "a", "b", "c", "d", "e", "f",
      "g", "h", "i", "j", "k", "l", "m", "n", "o", "p", "q", "r", "s", "t", "u", "v",
      "w", "x", "y", "z", "0", "1", "2", "3", "4", "5", "6", "7", "8", "9", "+", "/">>
RECURSIVE b64encode(_)
b64encode(b) ==
    IF b = <<>> THEN <<>>
    ELSE LET n == Len(b)
             v == b[1] * 65536 + (IF n >= 2 THEN b[2] ELSE 0) * 256
                  + (IF n >= 3 THEN b[3] ELSE 0)
         IN <<B64Alphabet[(v \div 262144) + 1],
              B64Alphabet[((v \div 4096) % 64) + 1],
              IF n >= 2 THEN B64Alphabet[((v \div 64) % 64) + 1] ELSE "=",
              IF n >= 3 THEN B64Alphabet[(v % 64) + 1] ELSE "=">>
            \o b64encode(IF n > 3 THEN SubSeq(b, 4, n) ELSE <<>>)

\* ------------------------------------------------------------ HTTP front door
\* The literals of api_server.py.
API_NO_RESPONSE == <<"Sorry, no response could be generated.">>
API_STT_ERROR == <<"An error occurred during speech recognition">>
API_NOT_RECOGNIZED == <<"Could not recognize the audio">>

\* response_text of text_chat and voice_chat.
ResponseText(response_messages) ==
    IF response_messages # <<>> THEN JoinSpace(response_messages) ELSE API_NO_RESPONSE

\* A faulty variant of ChatSessionId: one that always creates a new identifier.
ChatSessionIdAlwaysNew(requested, fresh) == fresh

\* session_id of text_chat: the caller's, or a new one.
ChatSessionId(requested, fresh) == IF Truthy(requested) THEN requested ELSE fresh

\* not transcript or transcript.startswith(...)
TranscriptRejected(transcript) ==
    ~Truthy(transcript) \/ StartsWith(transcript, API_STT_ERROR)

\* JSON bodies and HTTP answers.
NoBody ==
    [transcript |-> Absent, response |-> Absent, audio_base64 |-> Absent,
     session_id |-> Absent, error |-> Absent, detail |-> Absent]
NoHttp == [status |-> 0, body |-> NoBody]
HttpError(exc) == [status |-> 500, body |-> [NoBody EXCEPT !.detail = exc]]
HttpNotRecognized == [status |-> 400, body |-> [NoBody EXCEPT !.error = API_NOT_RECOGNIZED]]
TextChatAnswer(response_text, sid) ==
    [status |-> 200, body |-> [NoBody EXCEPT !.response = response_text, !.session_id = sid]]

\* A faulty variant of VoiceChatAnswer: one whose synthesis is not guarded by a try block.
VoiceChatAnswerUnguarded(transcript, response_text, sid, synthesized) ==
    IF synthesized.raised THEN HttpError(synthesized.exc)
    ELSE [status |-> 200,
          body |-> [NoBody EXCEPT !.transcript = transcript, !.response = response_text,
                                  !.audio_base64 = b64encode(synthesized.value),
                                  !.session_id = sid]]

\* The answer of voice_chat, given what synthesize_speech did.
VoiceChatAnswer(transcript, response_text, sid, synthesized) ==
    [status |-> 200,
     body |-> [NoBody EXCEPT !.transcript = transcript, !.response = response_text,
                             !.audio_base64 = IF synthesized.raised THEN None
                                              ELSE b64encode(synthesized.value),
                             !.session_id = sid]]

\* ------------------------------------------------------------------- inputs
Texts == {<<>>, <<"konnichiwa">>}
SessionIds == {None, <<>>, <<"s1">>}

\* Audio payloads: the length, and the leading bytes (at most four).
EBML == <<26, 69, 223, 163>>
ID3 == <<73, 68, 51, 4>>
MPEG_SYNC == <<255, 251, 144, 0>>
RIFF == <<82, 73, 70, 70>>
Content(n, h) == [len |-> n, head |-> h]
Contents ==
    {Content(0, <<>>), Content(2, <<255, 251>>), Content(999, EBML),
     Content(1000, EBML), Content(1000, ID3), Content(1000, MPEG_SYNC),
     Content(1000, RIFF), Content(512000, RIFF), Content(512001, RIFF),
     Content(10 * 1024 * 1024, RIFF), Content(12 * 1024 * 1024, RIFF)}

\* File names of uploads and of direct calls of transcribe_audio.
UploadNames == {<<"a", ".", "w", "a", "v">>, <<"a", ".", "e", "x", "e">>}
FileNames ==
    {None, <<"a", ".", "m", "p", "3">>, <<"A", ".", "W", "A", "V">>,
     <<"a", ".", "m", "p", "2">>, <<"n", "o", "t", "e", "s">>}

\* --------------------------------------------------------------------- state
NoOutcome == [raised |-> FALSE, value |-> None, exc |-> <<>>]
NoDetection == [kind |-> "none", messages |-> <<>>, error |-> <<>>]
NoMessages == <<None>>
NoConfig == RecognitionConfig("none", 0)

VARIABLES
    pc,                \* where the request being handled stands
    kind,              \* "none", "text", "voice" (the endpoints) or "transcribe"
    in_text,           \* ChatRequest.text
    in_session_id,     \* ChatRequest.session_id
    in_content,        \* the uploaded bytes, or the audio_content argument
    in_filename,       \* the upload's name, or the filename argument
    config,            \* transcribe_audio: its config; or what get_audio_config returned
    stt_calls,         \* the calls of the recognition backend, in order
    stt_answers,       \* transcribe_audio in progress: what the backend answered
    e,                 \* transcribe_audio: the exception of the try block
    retry_error,       \* transcribe_audio: the exception of the retry
    stt_result,        \* what transcribe_audio returned (or raised)
    session_id,        \* the handler's session_id
    df_backend,        \* what the intent-detection backend did
    df_calls,          \* the calls of detect_intent_texts: text and session_id
    response_messages, \* what detect_intent_texts returned
    tts_backend,       \* what the synthesis backend did
    tts_calls,         \* the calls of synthesize_speech: text
    http               \* the answer of the endpoint

vars ==
    <<pc, kind, in_text, in_session_id, in_content, in_filename, config,
      stt_calls,
      stt_answers, e,
      retry_error, stt_result, session_id, df_backend, df_calls, response_messages,
      tts_backend, tts_calls, http>>

sttVars == <<config, stt_calls, stt_answers, e, retry_error, stt_result>>
chatVars == <<session_id, df_backend, df_calls, response_messages, tts_backend, tts_calls, http>>
inVars == <<kind, in_text, in_session_id, in_content, in_filename>>

Init ==
    /\ pc = "idle"
    /\ kind = "none"
    /\ in_text = None
    /\ in_session_id = None
    /\ in_content = Content(0, <<>>)
    /\ in_filename = None
    /\ config = NoConfig
    /\ stt_calls = <<>>
    /\ stt_answers = <<>>
    /\ e = None
    /\ retry_error = None
    /\ stt_result = NoOutcome
    /\ session_id = None
    /\ df_backend = NoDetection
    /\ df_calls = <<>>
    /\ response_messages = NoMessages
    /\ tts_backend = NoSynthesis
    /\ tts_calls = <<>>
    /\ http = NoHttp

\* The filename transcribe_audio gets: voice_chat passes none.
SttFilename == IF kind = "voice" THEN None ELSE in_filename

\* ----------------------------------------------------------------- text_chat
\* text_chat, up to its call of the conversational gateway.
TextChatReceive(text, requested, fresh) ==
    /\ pc = "idle"
    /\ kind' = "text"
    /\ in_text' = text
    /\ in_session_id' = requested
    /\ session_id' = ChatSessionId(requested, fresh)
    /\ df_calls' = Append(df_calls, [text |-> text, session_id |-> session_id'])
    /\ pc' = "df"
    /\ UNCHANGED <<in_content, in_filename, sttVars, df_backend, response_messages,
                   tts_backend, tts_calls, http>>

\* text_chat, from the gateway's return to the answer.
TextChatRespond(backend) ==
    /\ pc = "df"
    /\ kind = "text"
    /\ LET r == detect_intent_texts(in_text, session_id, backend)
       IN /\ df_backend' = backend
          /\ IF r.raised
             THEN /\ response_messages' = NoMessages
                  /\ http' = HttpError(r.exc)
             ELSE /\ response_messages' = r.value
                  /\ http' = TextChatAnswer(ResponseText(r.value), session_id)
    /\ pc' = "done"
    /\ UNCHANGED <<inVars, sttVars, session_id, df_calls, tts_backend, tts_calls>>

\* ---------------------------------------------------------- transcribe_audio
\* voice_chat, up to its call of speech_to_text(audio_content).
VoiceChatReceive(audio_content, filename) ==
    /\ pc = "idle"
    /\ kind' = "voice"
    /\ in_content' = audio_content
    /\ in_filename' = filename
    /\ pc' = "stt"
    /\ UNCHANGED <<in_text, in_session_id, sttVars, chatVars>>

\* A call transcribe_audio(audio_content, filename) of the gateway itself.
TranscribeReceive(audio_content, filename) ==
    /\ pc = "idle"
    /\ kind' = "transcribe"
    /\ in_content' = audio_content
    /\ in_filename' = filename
    /\ pc' = "stt"
    /\ UNCHANGED <<in_text, in_session_id, sttVars, chatVars>>

\* transcribe_audio, up to its first call of the recognition backend.
TranscribeStart ==
    /\ pc = "stt"
    /\ config' = get_audio_config(in_content, SttFilename)
    /\ IF TooSmall(in_content)
       THEN /\ stt_result' = Return(STT_TOO_SMALL)
            /\ pc' = "stt_return"
            /\ UNCHANGED stt_calls
       ELSE /\ stt_calls' = Append(stt_calls, FirstCall(in_content, SttFilename))
            /\ pc' = "stt_first"
            /\ UNCHANGED stt_result
    /\ UNCHANGED <<inVars, stt_answers, e, retry_error, chatVars>>

\* transcribe_audio, from the answer of the first call to the return or the retry.
TranscribeRecognized(backend) ==
    /\ pc = "stt_first"
    /\ stt_answers' = Append(stt_answers, backend)
    /\ LET r == AfterRecognize(backend)
       IN IF ~r.raised
          THEN /\ stt_result' = r
               /\ pc' = "stt_return"
               /\ UNCHANGED <<e, stt_calls, config>>
          ELSE /\ e' = r.exc
               /\ IF IsEncodingMismatch(r.exc)
                  THEN /\ config' = WEBM_OPUS_48000
                       /\ stt_calls' = Append(stt_calls, RecognizeCall(WEBM_OPUS_48000))
                       /\ pc' = "stt_retry"
                       /\ UNCHANGED stt_result
                  ELSE /\ stt_result' = Return(ErrorStatus(r.exc))
                       /\ pc' = "stt_return"
                       /\ UNCHANGED <<stt_calls, config>>
    /\ UNCHANGED <<inVars, retry_error, chatVars>>

\* transcribe_audio, from the answer of the retry to the return.
TranscribeRetried(backend) ==
    /\ pc = "stt_retry"
    /\ stt_answers' = Append(stt_answers, backend)
    /\ retry_error' = RetryError(backend)
    /\ stt_result' = AfterRetry(e, backend)
    /\ pc' = "stt_return"
    /\ UNCHANGED <<inVars, config, stt_calls, e, chatVars>>

\* The return of a direct call of transcribe_audio: its locals are gone.
TranscribeReturn ==
    /\ pc = "stt_return"
    /\ kind = "transcribe"
    /\ config' = NoConfig
    /\ stt_answers' = <<>>
    /\ e' = None
    /\ retry_error' = None
    /\ pc' = "done"
    /\ UNCHANGED <<inVars, stt_calls, stt_result, chatVars>>

\* ---------------------------------------------------------------- voice_chat
\* voice_chat, from the return of speech_to_text to the call of the
\* conversational gateway, or to the error answer.
VoiceChatTranscribed(fresh) ==
    /\ pc = "stt_return"
    /\ kind = "voice"
    /\ config' = NoConfig
    /\ stt_answers' = <<>>
    /\ e' = None
    /\ retry_error' = None
    /\ IF stt_result.raised
       THEN /\ http' = HttpError(stt_result.exc)
            /\ pc' = "done"
            /\ UNCHANGED <<session_id, df_calls>>
       ELSE IF TranscriptRejected(stt_result.value)
       THEN /\ http' = HttpNotRecognized
            /\ pc' = "done"
            /\ UNCHANGED <<session_id, df_calls>>
       ELSE /\ session_id' = fresh
            /\ df_calls' = Append(df_calls, [text |-> stt_result.value, session_id |-> fresh])
            /\ pc' = "df"
            /\ UNCHANGED http
    /\ UNCHANGED <<inVars, stt_calls, stt_result, df_backend, response_messages,
                   tts_backend, tts_calls>>

\* voice_chat, from the gateway's return to the call of the synthesis gateway.
VoiceChatDetected(backend) ==
    /\ pc = "df"
    /\ kind = "voice"
    /\ LET r == detect_intent_texts(stt_result.value, session_id, backend)
       IN /\ df_backend' = backend
          /\ IF r.raised
             THEN /\ http' = HttpError(r.exc)
                  /\ pc' = "done"
                  /\ UNCHANGED <<response_messages, tts_calls>>
             ELSE /\ response_messages' = r.value
                  /\ tts_calls' = Append(tts_calls, ResponseText(r.value))
                  /\ pc' = "tts"
                  /\ UNCHANGED http
    /\ UNCHANGED <<inVars, sttVars, session_id, df_calls, tts_backend>>

\* voice_chat, from the return of synthesize_speech to the answer.
VoiceChatRespond(backend) ==
    /\ pc = "tts"
    /\ tts_backend' = backend
    /\ http' = VoiceChatAnswer(stt_result.value, ResponseText(response_messages),
                               session_id,
                               synthesize_speech(ResponseText(response_messages), backend))
    /\ pc' = "done"
    /\ UNCHANGED <<inVars, sttVars, session_id, df_backend, df_calls, response_messages,
                   tts_calls>>

\* The request is over: the next one starts from a clean slate.
Finish ==
    /\ pc = "done"
    /\ pc' = "idle"
    /\ kind' = "none"
    /\ in_text' = None
    /\ in_session_id' = None
    /\ in_content' = Content(0, <<>>)
    /\ in_filename' = None
    /\ config' = NoConfig
    /\ stt_calls' = <<>>
    /\ stt_answers' = <<>>
    /\ e' = None
    /\ retry_error' = None
    /\ stt_result' = NoOutcome
    /\ session_id' = None
    /\ df_backend' = NoDetection
    /\ df_calls' = <<>>
    /\ response_messages' = NoMessages
    /\ tts_backend' = NoSynthesis
    /\ tts_calls' = <<>>
    /\ http' = NoHttp

Next ==
    \/ \E text \in Texts, requested \in SessionIds, fresh \in Uuids :
           TextChatReceive(text, requested, fresh)
    \/ \E backend \in DfBackend : TextChatRespond(backend)
    \/ \E audio_content \in Contents, filename \in UploadNames :
           VoiceChatReceive(audio_content, filename)
    \/ \E audio_content \in Contents, filename \in FileNames :
           TranscribeReceive(audio_content, filename)
    \/ TranscribeStart
    \/ \E backend \in SttBackend : TranscribeRecognized(backend)
    \/ \E backend \in SttRetryBackend : TranscribeRetried(backend)
    \/ TranscribeReturn
    \/ \E fresh \in Uuids : VoiceChatTranscribed(fresh)
    \/ \E backend \in DfBackend : VoiceChatDetected(backend)
    \/ \E backend \in TtsBackend : VoiceChatRespond(backend)
    \/ Finish

Spec == Init /\ [][Next]_vars

\* ------------------------------------------------- get_audio_config, by itself
\* The arguments of a call get_audio_config(audio_content, filename).
ResolverContents ==
    {Content(0, <<>>), Content(2, <<255, 251>>), Content(3, <<73, 68, 51>>),
     Content(4, EBML), Content(4, <<26, 69, 223, 0>>), Content(1000, EBML),
     Content(1000, ID3), Content(1000, MPEG_SYNC), Content(1000, RIFF)}
ResolverFileNames ==
    {None, <<>>,
     <<"a", ".", "m", "p", "3">>, <<"B", ".", "M", "P", "3">>,
     <<"c", ".", "m", "4", "a">>, <<"C", ".", "M", "4", "A">>,
     <<"d", ".", "a", "a", "c">>,
     <<"e", ".", "w", "a", "v">>, <<"E", ".", "W", "a", "v">>,
     <<"f", ".", "o", "g", "g">>,
     <<"g", ".", "w", "e", "b", "m">>, <<"G", ".", "W", "E", "B", "M">>,
     <<"n", "o", "t", "e", "s">>, <<".", "w", "a", "v">>,
     <<"k", ".", "q", "q", "q">>, <<"w", "a", "v", ".">>,
     <<"h", ".", "t", "x", "t">>, <<"j", ".", "m", "p", "4">>,
     <<"i", ".", "m", "p", "2">>, <<"e", ".", "w", "a", "v", ".", "g", "z">>}

\* A call of get_audio_config is about to run on some arguments.
InitResolver ==
    /\ pc = "resolve"
    /\ kind = "resolve"
    /\ in_text = None
    /\ in_session_id = None
    /\ in_content \in ResolverContents
    /\ in_filename \in ResolverFileNames
    /\ config = NoConfig
    /\ stt_calls = <<>>
    /\ stt_answers = <<>>
    /\ e = None
    /\ retry_error = None
    /\ stt_result = NoOutcome
    /\ session_id = None
    /\ df_backend = NoDetection
    /\ df_calls = <<>>
    /\ response_messages = NoMessages
    /\ tts_backend = NoSynthesis
    /\ tts_calls = <<>>
    /\ http = NoHttp

\* get_audio_config, from its call to its return.
Resolve ==
    /\ pc = "resolve"
    /\ config' = get_audio_config(in_content, in_filename)
    /\ pc' = "resolved"
    /\ UNCHANGED <<inVars, stt_calls, stt_answers, e, retry_error, stt_result, chatVars>>

NextResolver == Resolve

SpecResolver == InitResolver /\ [][NextResolver]_vars

\* ------------------------------------------------------------------- claims
\* The request is past the point where transcribe_audio checks the payload's size.
TranscribeStarted ==
    kind \in {"voice", "transcribe"} /\ pc \in {"stt_first", "stt_retry", "stt_return", "df", "tts", "done"}

\* The upload ceiling and the allow-list of the specification's voice chat.
UploadMaxBytes == 10 * 1024 * 1024
AllowedUploadExtensions ==
    {<<".", "m", "p", "3">>, <<".", "w", "a", "v">>, <<".", "o", "g", "g">>,
     <<".", "m", "4", "a">>, <<".", "a", "a", "c">>, <<".", "w", "e", "b", "m">>}
UploadRefused ==
    \/ in_content.len > UploadMaxBytes
    \/ Lower(SplitExt(in_filename)[2]) \notin AllowedUploadExtensions

\* C1: a voice chat upload whose extension is outside the allow-list or whose size
\* exceeds 10 MiB is answered with an error payload, and no backend (recognition,
\* intent detection, synthesis) is ever called for it.
C1_RefusedUploadCallsNoBackend ==
    (kind = "voice" /\ UploadRefused) =>
        /\ stt_calls = <<>> /\ df_calls = <<>> /\ tts_calls = <<>>
        /\ pc = "done" => (http.status = 400 /\ http.body.error # Absent)

\* The failure status strings of transcribe_audio.
IsFailureStatus(s) ==
    \/ s \in {STT_TOO_SMALL, STT_NOT_RECOGNIZED, STT_BAD_FORMAT, STT_TOO_LARGE, STT_TIMED_OUT}
    \/ StartsWith(s, STT_ERROR)

\* C2: in voice chat, when transcribe_audio has returned one of its failure status
\* strings, neither the conversational nor the synthesis gateway is called, and the
\* request ends with an error payload.
C2_FailureStatusEndsVoiceChat ==
    (kind = "voice" /\ pc \in {"df", "tts", "done"} /\ IsFailureStatus(stt_result.value)) =>
        /\ df_calls = <<>> /\ tts_calls = <<>>
        /\ pc = "done" /\ http.status = 400 /\ http.body.error # Absent

\* The strings transcribe_audio builds from an error e.
FailureFormats(err) ==
    {STT_BAD_FORMAT, STT_TOO_LARGE, STT_TIMED_OUT, STT_ERROR \o <<": ">> \o err}

\* A text: a sequence of tokens that is neither None nor an absent field.
IsText(s) == s # None /\ s # Absent /\ \A i \in 1..Len(s) : s[i] \notin {"<None>", "<absent>"}

\* C3: transcribe_audio never raises: whatever the payload, the filename and the
\* backend's behaviour (on the first call and on the retry), it returns a text,
\* the transcript or a status string.
C3_TranscribeNeverRaises ==
    /\ ~stt_result.raised
    /\ pc = "stt_return" => IsText(stt_result.value)
    /\ (kind = "voice" /\ pc = "done") => http.status # 500

C3_Witness ==
    /\ pc = "stt_return"
    /\ kind = "transcribe"
    /\ in_filename # None
    /\ Len(stt_answers) = 2
    /\ stt_answers[2].kind = "error"
    /\ retry_error # None
    /\ stt_result.value \in FailureFormats(e)

\* The message of err tells of an MP3-vs-WebM encoding mismatch.
MentionsMismatch(err) ==
    /\ \E i \in 1..Len(err) : err[i] = "MP3 encoding"
    /\ \E i \in 1..Len(err) : err[i] \in {"webm", "WebM"}

\* C4: one call of transcribe_audio makes at most two recognition calls; the second
\* is the synchronous WEBM_OPUS/48000 retry and follows a mismatch error of the
\* first; any other error is not retried; the retry's transcript is returned when
\* the retry has one, and otherwise the first error's status string.
C4_RetryOnceOnMismatch ==
    /\ Len(stt_calls) <= 2
    /\ Len(stt_calls) = 2 =>
           /\ stt_calls[2] = [method |-> "recognize", timeout |-> <<>>,
                              config |-> [encoding |-> "WEBM_OPUS", sample_rate_hertz |-> 48000]]
           /\ pc \in {"stt_retry", "stt_return"} => (e # None /\ MentionsMismatch(e))
    /\ (pc = "stt_return" /\ e # None) => (Len(stt_calls) = 2 <=> MentionsMismatch(e))
    /\ (pc = "stt_return" /\ Len(stt_answers) = 2) =>
           IF stt_answers[2].kind = "results"
           THEN stt_result = Return(stt_answers[2].transcript)
           ELSE ~stt_result.raised /\ stt_result.value \in FailureFormats(e)

C4_Witness ==
    /\ pc = "stt_return"
    /\ Len(stt_calls) = 2
    /\ stt_calls[1].method = "recognize"
    /\ stt_answers[2].kind = "results"
    /\ stt_answers[2].transcript # <<>>
    /\ stt_result.value = stt_answers[2].transcript

\* C5: a payload shorter than 1000 bytes gets the "too small" status and no
\* recognition call; a payload of exactly 1000 bytes gets a recognition call and is
\* not reported as too small.
C5_TooSmallCallsNoBackend ==
    /\ (TranscribeStarted /\ in_content.len < 1000) =>
           (stt_calls = <<>> /\ stt_result = Return(STT_TOO_SMALL))
    /\ (TranscribeStarted /\ in_content.len = 1000) =>
           (stt_calls # <<>> /\ stt_result.value # STT_TOO_SMALL)

C5_Witness ==
    /\ pc = "stt_return"
    /\ in_content.len = 999
    /\ stt_calls = <<>>
    /\ stt_result.value = STT_TOO_SMALL

C7_DetectIntentNeverEmpty ==
    df_backend.kind # "none" =>
        /\ response_messages # NoMessages
        /\ Len(response_messages) >= 1
        /\ \A i \in 1..Len(response_messages) : IsText(response_messages[i])
        /\ df_backend.kind = "error" =>
               response_messages = <<DF_ERROR_PREFIX \o df_backend.error>>
        /\ (df_backend.kind = "response" /\ df_backend.messages = <<>>) =>
               response_messages = <<DF_DEFAULT_APOLOGY>>
        /\ (df_backend.kind = "response" /\ df_backend.messages # <<>>) =>
               /\ Len(response_messages) = Len(df_backend.messages)
               /\ \A i \in 1..Len(response_messages) :
                      response_messages[i] = JoinSpace(df_backend.messages[i])

C7_Witness ==
    /\ df_backend.kind = "response"
    /\ df_backend.messages = <<>>
    /\ response_messages = <<DF_DEFAULT_APOLOGY>>

\* The session identifier the gateway got is the one the answer carries.
SessionIdPropagated ==
    /\ Len(df_calls) <= 1
    /\ (df_calls # <<>> /\ pc \in {"df", "tts"}) => df_calls[1].session_id = session_id
    /\ (df_calls # <<>> /\ pc = "done") =>
           (http.status = 200 /\ http.body.session_id = df_calls[1].session_id)

\* C8 as claimed: the gateway's session identifier is the answer's; text chat uses
\* and echoes any identifier the caller supplies and creates one only when the
\* caller supplies none; voice chat creates one for every request.
C8_SessionIdEchoedWheneverSupplied ==
    /\ SessionIdPropagated
    /\ (kind = "text" /\ pc = "done" /\ in_session_id # None) =>
           http.body.session_id = in_session_id
    /\ (kind = "text" /\ pc = "done" /\ in_session_id = None) =>
           http.body.session_id \in Uuids
    /\ (kind = "voice" /\ df_calls # <<>>) => session_id \in Uuids

\* C8 as amended: text chat uses and echoes a non-empty identifier the caller
\* supplies, and creates a non-empty one when the caller supplies none or an
\* empty one.
C8_SessionIdEchoedWhenNonEmpty ==
    /\ SessionIdPropagated
    /\ (kind = "text" /\ pc = "done" /\ in_session_id \notin {None, <<>>}) =>
           http.body.session_id = in_session_id
    /\ (kind = "text" /\ pc = "done" /\ in_session_id \in {None, <<>>}) =>
           (http.body.session_id \in Uuids /\ http.body.session_id # <<>>)
    /\ (kind = "voice" /\ df_calls # <<>>) => (session_id \in Uuids /\ session_id # <<>>)

C8_Witness ==
    /\ kind = "text"
    /\ pc = "done"
    /\ in_session_id = <<"s1">>
    /\ df_calls[1].session_id = <<"s1">>
    /\ http.body.session_id = <<"s1">>

\* A base64 text of n bytes: 4 characters for every 3 bytes, of the alphabet or "=".
IsBase64Of(s, n) ==
    /\ s # None /\ s # Absent
    /\ Len(s) = 4 * ((n + 2) \div 3)
    /\ \A i \in 1..Len(s) : s[i] = "=" \/ \E j \in 1..64 : B64Alphabet[j] = s[i]

\* C9: in voice chat a failure of the synthesis does not fail the request: the
\* answer carries the transcript, the response text and the session identifier,
\* with a null audio field; the audio field is a base64 text exactly when the
\* synthesis succeeded.
C9_SynthesisFailureDegrades ==
    (kind = "voice" /\ pc = "done" /\ tts_backend.kind # "none") =>
        /\ http.status = 200
        /\ http.body.transcript = stt_result.value
        /\ IsText(http.body.response)
        /\ http.body.response = tts_calls[1]
        /\ http.body.session_id = session_id
        /\ http.body.error = Absent
        /\ tts_backend.kind = "error" <=> http.body.audio_base64 = None
        /\ tts_backend.kind = "audio" =>
               IsBase64Of(http.body.audio_base64, Len(tts_backend.audio_content))

C9_Witness ==
    /\ kind = "voice"
    /\ pc = "done"
    /\ tts_backend.kind = "error"
    /\ http.status = 200
    /\ http.body.audio_base64 = None
    /\ IsText(http.body.transcript)

\* C10: text chat answers every request with the body {response, session_id} and
\* no error status; a failure of the intent detection is a message inside response.
C10_TextChatAlwaysAnswers ==
    (kind = "text" /\ pc = "done") =>
        /\ http.status = 200
        /\ IsText(http.body.response)
        /\ IsText(http.body.session_id)
        /\ http.body.error = Absent /\ http.body.detail = Absent
        /\ df_backend.kind = "error" =>
               http.body.response = DF_ERROR_PREFIX \o df_backend.error

C10_Witness ==
    /\ kind = "text"
    /\ pc = "done"
    /\ df_backend.kind = "error"
    /\ df_backend.error # <<>>
    /\ http.status = 200

\* The file names of ResolverFileNames by their extension, in any letter case.
Mp3Names ==
    {<<"a", ".", "m", "p", "3">>, <<"B", ".", "M", "P", "3">>, <<"c", ".", "m", "4", "a">>,
     <<"C", ".", "M", "4", "A">>, <<"d", ".", "a", "a", "c">>}
WavNames == {<<"e", ".", "w", "a", "v">>, <<"E", ".", "W", "a", "v">>}
OggNames == {<<"f", ".", "o", "g", "g">>}
WebmNames == {<<"g", ".", "w", "e", "b", "m">>, <<"G", ".", "W", "E", "B", "M">>}

\* C11: a recognized extension of the file name decides the configuration whatever
\* the bytes are (EBML, ID3 and FF FB magic included): .mp3, .m4a and .aac give
\* MP3/44100, .wav gives LINEAR16/16000, .ogg gives OGG_OPUS/48000 and .webm gives
\* WEBM_OPUS/48000, the extension being compared without regard to letter case.
C11_ExtensionDecides ==
    pc = "resolved" =>
        /\ in_filename \in Mp3Names =>
               config = [encoding |-> "MP3", sample_rate_hertz |-> 44100]
        /\ in_filename \in WavNames =>
               config = [encoding |-> "LINEAR16", sample_rate_hertz |-> 16000]
        /\ in_filename \in OggNames =>
               config = [encoding |-> "OGG_OPUS", sample_rate_hertz |-> 48000]
        /\ in_filename \in WebmNames =>
               config = [encoding |-> "WEBM_OPUS", sample_rate_hertz |-> 48000]

C11_Witness ==
    /\ pc = "resolved"
    /\ in_filename = <<"E", ".", "W", "a", "v">>
    /\ in_content.head = <<26, 69, 223, 163>>
    /\ config = [encoding |-> "LINEAR16", sample_rate_hertz |-> 16000]

\* The file names of ResolverFileNames that give no hint (none, empty, or without a
\* recognized extension and without a MIME type), and those whose MIME type is
\* guessed (text/plain, video/mp4) but names no known format.
NoHintNames ==
    {None, <<>>, <<"n", "o", "t", "e", "s">>, <<".", "w", "a", "v">>,
     <<"k", ".", "q", "q", "q">>, <<"w", "a", "v", ".">>}
UnknownMimeNames == {<<"h", ".", "t", "x", "t">>, <<"j", ".", "m", "p", "4">>}

\* bytes begins with magic.
BeginsWith(bytes, magic) ==
    Len(bytes) >= Len(magic) /\ \A i \in 1..Len(magic) : bytes[i] = magic[i]

\* C12: without a hint from the file name the leading bytes decide: EBML magic
\* gives WEBM_OPUS/48000, an ID3 tag or FF FB gives MP3/44100, and everything else,
\* contents shorter than four bytes included, gives the default WEBM_OPUS/48000;
\* with a MIME type that names no known format the default is returned whatever
\* the bytes are.
C12_LeadingBytesDecide ==
    pc = "resolved" =>
        /\ in_filename \in NoHintNames =>
               config =
                   IF in_content.len >= 4 /\ BeginsWith(in_content.head, <<26, 69, 223, 163>>)
                   THEN [encoding |-> "WEBM_OPUS", sample_rate_hertz |-> 48000]
                   ELSE IF in_content.len >= 4
                           /\ (BeginsWith(in_content.head, <<73, 68, 51>>)
                               \/ BeginsWith(in_content.head, <<255, 251>>))
                   THEN [encoding |-> "MP3", sample_rate_hertz |-> 44100]
                   ELSE [encoding |-> "WEBM_OPUS", sample_rate_hertz |-> 48000]
        /\ in_filename \in UnknownMimeNames =>
               config = [encoding |-> "WEBM_OPUS", sample_rate_hertz |-> 48000]

C12_Witness ==
    /\ pc = "resolved"
    /\ in_filename = <<".", "w", "a", "v">>
    /\ in_content = [len |-> 1000, head |-> <<255, 251, 144, 0>>]
    /\ config = [encoding |-> "MP3", sample_rate_hertz |-> 44100]

\* The message of err has the piece of text t in it.
Mentions(err, t) == \E i \in 1..Len(err) : err[i] = t

\* transcribe_audio is about to return after an error of the first recognition
\* call that no retry made good.
EndsInFailureFormatting ==
    /\ pc = "stt_return"
    /\ e # None
    /\ ~(Len(stt_answers) = 2 /\ stt_answers[2].kind = "results")

\* C13: the status returned after an error of the first recognition call that no
\* retry made good is chosen from the text of that error, the first match winning:
\* "400" gives the bad-format status, "413" the too-large status, "timeout" in any
\* letter case the timed-out status, anything else the generic status followed by
\* the raw message; what the retry raised has no part in it.
C13_StatusFromFirstError ==
    EndsInFailureFormatting =>
        /\ ~stt_result.raised
        /\ stt_result.value =
               IF Mentions(e, "400")
               THEN STT_BAD_FORMAT
               ELSE IF Mentions(e, "413")
               THEN STT_TOO_LARGE
               ELSE IF Mentions(e, "timeout") \/ Mentions(e, "Timeout")
               THEN STT_TIMED_OUT
               ELSE STT_ERROR \o <<": ">> \o e

C13_Witness ==
    /\ EndsInFailureFormatting
    /\ e = <<"MP3 encoding", "webm", "413">>
    /\ retry_error = <<"400">>
    /\ stt_result.value = STT_TOO_LARGE
====
